---- MODULE Spec2Model ----
(***************************************************************************)
(* Blackbox Protocol runtime (packages/protocol/src/runtime.ts).           *)
(*                                                                         *)
(* One session of one program.  Every do() starts an async call of         *)
(* transition(); the call runs synchronously up to its next `await` and is *)
(* resumed when the awaited plug settles.  A step of the model is one such *)
(* run of JavaScript from a call or a resumption to the next `await`: the  *)
(* operators Attempt .. Throw are the pieces of code it passes through.    *)
(***************************************************************************)
EXTENDS Integers, Sequences, FiniteSets, TLC

\* ---------------------------------------------------------------- bounds
MaxDispatch == 2        \* do() calls that pass the legality test
MaxDeclared == 2        \* phases of a program given to start() (SpecBoot)
MaxPush == 1            \* elements the host pushes onto one array (SpecCopy)
MaxNodes == 3           \* phases of a phase graph given to introspect()
MaxPath == 3            \* length of a sequence given to pathExists()
MaxDepth == 2           \* nesting depth of a value validated against models

\* two distinguishable payload values / service results
Vals == {1, 2}

\* ---------------------------------------------------------------- values
None == "none"

Num(n) == [t |-> "number", v |-> n]
Arr(n) == [t |-> "array", v |-> n]

Empty == [k \in {} |-> Num(0)]

\* { ...a, ...b }  and  Object.assign(a, b)
Merge(a, b) == [k \in (DOMAIN a) \cup (DOMAIN b) |-> IF k \in DOMAIN b THEN b[k] ELSE a[k]]

NoError == [message |-> None, code |-> None]
NoEvent == [type |-> None, val |-> 0, error |-> NoError]
InitEvent == [type |-> "INIT", val |-> 0, error |-> NoError]

\* ---------------------------------------------------------------- program
Tr(target, cond, actions) == [target |-> target, cond |-> cond, actions |-> actions]
To(target) == <<Tr(target, None, <<>>)>>

NoInvoke == [src |-> None, hasInput |-> FALSE, onDone |-> <<>>, onError |-> <<>>]

NoOn == [e \in {} |-> <<>>]

Ph(entry, exit, on, invoke, final) ==
  [entry |-> entry, exit |-> exit, on |-> on, invoke |-> invoke, final |-> final]

\* The program under verification: the phases of the runtime's behavioural
\* tests (Spec 3, 4, 6, 7, 8) joined into one phase table.  createBlackbox
\* takes the configuration as it is: the target "gone" of failed.on.ABORT is
\* not a declared phase, the final phase "completed" has an entry action, and
\* every alternative of failed.on.ESCALATE has a guard.
config ==
  [ version |-> "1.0.0",
    initial |-> "idle",
    declared |-> <<"idle", "searching", "results", "paying", "failed", "approved",
                   "review", "rejected", "completed">>,
    plugs |-> {"isVIP", "saveScroll", "startLoading", "applyTax", "storeResults",
               "logError", "processPayment", "archive"},
    data |-> [ total |-> [type |-> "number", hasDefault |-> TRUE,  default |-> Num(0)],
               tax   |-> [type |-> "number", hasDefault |-> FALSE, default |-> Num(0)],
               items |-> [type |-> "array",  hasDefault |-> FALSE, default |-> Num(0)] ],
    phases |->
      [ idle |-> Ph(<<>>, <<>>,
                    [e \in {"SUBMIT", "SEARCH"} |->
                       IF e = "SUBMIT"
                       THEN << Tr("approved", "isVIP", <<"calculateTotal">>),
                               Tr("review", "isLargeAmount", <<>>),
                               Tr("rejected", None, <<>>) >>
                       ELSE To("searching")],
                    NoInvoke, FALSE),
        searching |-> Ph(<<>>, <<>>,
                    [e \in {"CANCEL"} |-> To("idle")],
                    [src |-> "searchAPI", hasInput |-> TRUE,
                     onDone |-> <<Tr("results", None, <<"storeResults">>)>>,
                     onError |-> <<Tr("failed", None, <<"logError">>)>>],
                    FALSE),
        results |-> Ph(<<>>, <<"saveScroll">>,
                    [e \in {"PAY"} |->
                       <<Tr("paying", None, <<"calculateTotal", "applyTax">>)>>],
                    NoInvoke, FALSE),
        paying |-> Ph(<<"startLoading">>, <<>>, NoOn,
                    [src |-> "processPayment", hasInput |-> FALSE,
                     onDone |-> To("completed"), onError |-> <<>>],
                    FALSE),
        failed |-> Ph(<<>>, <<>>,
                    [e \in {"RETRY", "ABORT", "ESCALATE"} |->
                       CASE e = "RETRY" -> To("searching")
                         [] e = "ABORT" -> To("gone")
                         [] e = "ESCALATE" ->
                              << Tr("approved", "isVIP", <<>>),
                                 Tr("review", "isLargeAmount", <<>>) >>],
                    NoInvoke, FALSE),
        approved |-> Ph(<<>>, <<>>, NoOn, NoInvoke, TRUE),
        review |-> Ph(<<>>, <<>>, [e \in {"REOPEN"} |-> To("idle")], NoInvoke, TRUE),
        rejected |-> Ph(<<>>, <<>>, NoOn, NoInvoke, TRUE),
        completed |-> Ph(<<"archive">>, <<>>, NoOn, NoInvoke, TRUE) ] ]

PhaseNames == DOMAIN config.phases

\* `config.phases[name]` read with optional chaining: an undeclared name gives
\* undefined, whose entry, exit, on, invoke and type are all absent
PhaseOf(name) ==
  IF name \in PhaseNames THEN config.phases[name]
  ELSE Ph(<<>>, <<>>, NoOn, NoInvoke, FALSE)
EventNames == {"SUBMIT", "SEARCH", "CANCEL", "PAY", "RETRY", "ABORT", "ESCALATE",
               "REOPEN"}
GuardNames == {"isVIP", "isLargeAmount"}
ActionNames == {"saveScroll", "startLoading", "calculateTotal", "applyTax", "storeResults",
                "logError", "archive"}
ServiceNames == {"searchAPI", "processPayment"}
PlugNames == GuardNames \cup ActionNames \cup ServiceNames

\* payloads the host passes with an event
Payloads(e) == IF e = "PAY" THEN Vals ELSE {0}

\* ---------------------------------------------------------------- plugs
\* The partial update an action plug computes from (data, event).
Update(name, d, ev) ==
  CASE name = "calculateTotal" -> [k \in {"total"} |-> Num(ev.val)]
    [] name = "applyTax"       -> [k \in {"tax"} |-> d["total"]]
    [] name = "storeResults"   -> [k \in {"items"} |-> Arr(ev.val)]
    [] OTHER                   -> Empty

\* "assign": the plug is wrapped in assign(), which writes the update into
\* the data object it was given; "pure": the plug only returns the update.
Styles(name) == IF name \in {"calculateTotal", "applyTax", "storeResults"}
                THEN {"assign", "pure"} ELSE {"pure"}

assign(style, d, u) == IF style = "assign" THEN Merge(d, u) ELSE d

\* ---------------------------------------------------------------- init data
getDefaultForType(type) ==
  CASE type = "string"  -> [t |-> "string", v |-> 0]
    [] type = "number"  -> Num(0)
    [] type = "boolean" -> [t |-> "boolean", v |-> 0]
    [] type = "array"   -> Arr(0)
    [] type = "object"  -> [t |-> "object", v |-> 0]
    [] OTHER            -> [t |-> "null", v |-> 0]

\* the value `undefined` of a property that an object has
Undefined == [t |-> "undefined", v |-> 0]

\* `if (initialData[key] !== undefined) ... else if (def.default !== undefined)
\* ... else getDefaultForType(def.type)`, then `return { ...data, ...initialData }`
initializeData(schema, initialData) ==
  LET d == [k \in DOMAIN schema |->
              IF k \in DOMAIN initialData /\ initialData[k] # Undefined
              THEN initialData[k]
              ELSE IF schema[k].hasDefault THEN schema[k].default
              ELSE getDefaultForType(schema[k].type)]
  IN Merge(d, initialData)

\* overrides the host passes to start()
Overrides == {Empty, [k \in {"total", "coupon"} |-> Num(1)]}

\* ---------------------------------------------------------------- state
VARIABLES currentPhase, data, loading, error, lastEvent, eventHistory,
          plugs, tasks, emitted, restored,
          program,    \* what createBlackbox was given: `initial`, and the phase
                      \* names in the order the phase table declares them
          heap,       \* the elements pushed onto each array object in place
          held,       \* what the host keeps of a where() / snapshot() result
          replayed,   \* the session whose history is being replayed
          graph,      \* the phase table an introspection call walks
          walk        \* a call of an introspection or other pure function of
                      \* the runtime: its arguments, stack, visited set, result

vars == <<currentPhase, data, loading, error, lastEvent, eventHistory,
          plugs, tasks, emitted, restored, program, heap, held, replayed,
          graph, walk>>

\* the variables of an introspection call
introVars == <<graph, walk>>

\* the variables of the host, which no step of the session writes
hostVars == <<program, heap, held, replayed, introVars>>

\* canonical array index of a property name, -1 when it is not one
ArrayIndex(name) ==
  CASE name = "1" -> 1
    [] name = "2" -> 2
    [] name = "10" -> 10
    [] OTHER -> -1

RECURSIVE Ascending(_)
Ascending(S) ==
  IF S = {} THEN <<>>
  ELSE LET x == CHOOSE a \in S : \A b \in S : ArrayIndex(a) <= ArrayIndex(b)
       IN <<x>> \o Ascending(S \ {x})

\* Object.keys(object literal): the integer-like names in ascending numeric
\* order, then the other names in the order they were written
ObjectKeys(declared) ==
  Ascending({declared[j] : j \in {n \in DOMAIN declared : ArrayIndex(declared[n]) >= 0}})
    \o SelectSeq(declared, LAMBDA n : ArrayIndex(n) < 0)

\* `config.initial || Object.keys(config.phases)[0]`
initialPhase(initial, declared) ==
  IF initial \notin {None, ""} THEN initial ELSE ObjectKeys(declared)[1]

NotHeld == [taken |-> FALSE]
NoGraph == [declared |-> {}]
NoWalk == [status |-> "none"]
NotReplayed == [done |-> FALSE]

NotRestored == [done |-> FALSE, snap |-> [phase |-> None, data |-> Empty],
                where |-> [phase |-> None, data |-> Empty]]

\* one async call chain started by do() or by start(); pc is the await it is
\* suspended at, alts[i] the transition it is attempting.  gres (verdicts of
\* the guards so far), gcalls (guards invoked), trace (plugs invoked, phase
\* change, invocation), from, to, ret, style, result (what the service resolved
\* with), arg (what the pending service was called with), ver (which plug the
\* pending call went to), dones (done notifications emitted), was (data when
\* the transition began), stale and legal are
\* history variables of the call's current transition, not read by the engine.
Task(kind, alts, event, legal) ==
  [ kind |-> kind, pc |-> "attempt", alts |-> alts, i |-> 1, event |-> event,
    list |-> <<>>, k |-> 0, stage |-> None, res |-> None, err |-> NoError,
    stack |-> <<>>, gres |-> <<>>, gcalls |-> <<>>, trace |-> <<>>, from |-> None,
    to |-> None, ret |-> Empty, style |-> None, result |-> 0, stale |-> FALSE,
    legal |-> legal, arg |-> NoEvent, ver |-> 0, dones |-> 0, was |-> Empty ]

\* the call chain has returned (or its exception has been handled)
Finished(r) ==
  [r EXCEPT !.pc = "done", !.list = <<>>, !.k = 0, !.stage = None, !.res = None,
            !.err = NoError, !.stack = <<>>, !.ret = Empty, !.style = None,
            !.stale = FALSE, !.arg = NoEvent, !.ver = 0, !.was = Empty]

Suspended == {"awaitGuard", "awaitPlug", "awaitService", "done"}

Frame(phase, mode) == [inv |-> phase, mode |-> mode]

\* handleInvoke: `let input = lastEvent; if (invoke.input) input =
\* invoke.input(data, lastEvent)`; the input computer of the program keeps the
\* event's fields and adds data.total
ServiceInput(inv, d, ev) ==
  IF inv.hasInput
  THEN [type |-> "input", val |-> ev.val, error |-> ev.error, of |-> ev.type,
        total |-> d["total"]]
  ELSE ev

startNotLoading(initialData) ==
  [ phase |-> initialPhase(program.initial, program.declared),
    data |-> initializeData(config.data, initialData),
    loading |-> FALSE ]

\* start(initialData): the session as start() leaves it
start(initialData) ==
  [ phase |-> initialPhase(program.initial, program.declared),
    data |-> initializeData(config.data, initialData),
    loading |-> PhaseOf(initialPhase(program.initial, program.declared)).invoke.src # None ]

\* the registry: for each name the plug registered under it (1: the plug
\* registered first, 2: a plug given for the same name later), 0 for none
Registry(names) == [n \in PlugNames |-> IF n \in names THEN 1 ELSE 0]

\* the plugs the host registers with one use() call
UseSets == { [n \in PlugNames \ config.plugs |-> 1] }

\* a use() call that gives other plugs for two names
SwapSets == { [n \in {"isVIP", "isLargeAmount"} |-> 2] }

\* the session as start() returns it, and the host with nothing in hand
Started ==
  /\ \E ov \in Overrides :
       /\ currentPhase = start(ov).phase
       /\ data = start(ov).data
       /\ loading = start(ov).loading
  /\ error = NoError
  /\ lastEvent = InitEvent
  /\ eventHistory = <<>>
  /\ tasks = IF PhaseOf(currentPhase).invoke.src # None
             THEN << [ Task("start", <<>>, InitEvent, TRUE) EXCEPT
                         !.pc = "awaitService",
                         !.res = IF plugs[PhaseOf(currentPhase).invoke.src] # 0
                                 THEN "pending" ELSE "missing",
                         !.ver = plugs[PhaseOf(currentPhase).invoke.src],
                         !.stack = <<Frame(currentPhase, "try")>>,
                         !.trace = <<"#invoke">>,
                         !.arg = ServiceInput(PhaseOf(currentPhase).invoke, data,
                                              InitEvent) ] >>
             ELSE <<>>
  /\ emitted = <<>>
  /\ restored = NotRestored
  /\ heap = [v \in Vals \cup {0} |-> <<>>]
  /\ held = NotHeld
  /\ replayed = NotReplayed

\* no introspection call is made
NoIntrospection ==
  /\ graph = NoGraph
  /\ walk = NoWalk

Init ==
  /\ NoIntrospection
  /\ program = [initial |-> config.initial, declared |-> config.declared]
  /\ plugs = Registry(config.plugs)
  /\ Started

\* the same phase table with `initial: 'searching'`, a phase with an
\* invocation; the factory's use() may have registered the plugs before start()
InitInvoking ==
  /\ NoIntrospection
  /\ program = [initial |-> "searching", declared |-> config.declared]
  /\ plugs \in {Registry(config.plugs), Registry(PlugNames)}
  /\ Started

\* ---------------------------------------------------------------- engine
\* The JavaScript thread while one call runs: the session's variables, the
\* running call r, and what the run has emitted or called so far.
Mach(r) ==
  [ phase |-> currentPhase, data |-> data, loading |-> loading, error |-> error,
    lastEvent |-> lastEvent, r |-> r, log |-> <<>> ]

\* the same, resumed because the awaited plug settled with outcome o
Resumed(r, o) == [Mach(r) EXCEPT !.log = <<o>>]

Alt(r) == r.alts[r.i]
Top(r) == r.stack[Len(r.stack)]

PlugError(o) == IF o = "missing" THEN [message |-> "Plug not found", code |-> None]
                ELSE [message |-> "failed", code |-> "E1"]

\* executePlug's lookup: `plugs[plugName]`, read when the call is made
Lookup(name) == IF plugs[name] # 0 THEN "pending" ELSE "missing"

VersionAtStart(name) == IF name \in config.plugs THEN 1 ELSE 0

\* the plug the call goes to: the one registered under the name at the call
Version(name) == plugs[name]

\* outcomes of an awaited plug call
Settled(res, outcomes) == IF res = "missing" THEN {"missing"} ELSE outcomes

\* attemptTransition, guard check: `if (cond)` calls the guard plug and awaits it
Attempt(m) ==
  IF Alt(m.r).cond # None
  THEN [m EXCEPT !.r.pc = "awaitGuard", !.r.res = Lookup(Alt(m.r).cond),
                 !.r.ver = Version(Alt(m.r).cond),
                 !.r.gcalls = IF Lookup(Alt(m.r).cond) = "missing" THEN m.r.gcalls
                              ELSE Append(m.r.gcalls, m.r.i)]
  ELSE [m EXCEPT !.r.pc = "exit", !.r.gres = Append(m.r.gres, "absent")]

GuardVerdictRethrow(o) ==
  IF o = "true" THEN "pass" ELSE IF o = "false" THEN "fail" ELSE "throw"

\* `if (!guardResult) return false` and the catch around the guard call
GuardVerdict(o) == IF o = "true" THEN "pass" ELSE "fail"

\* transition(): `if (shouldTransition) return`, else the next list element
NextAlt(r) == IF r.i < Len(r.alts) THEN r.i + 1 ELSE 0

AfterGuardLastMatch(m, o) ==
  LET g == [m EXCEPT !.r.gres = Append(m.r.gres, GuardVerdict(o)), !.r.res = None,
                     !.r.ver = 0]
  IN IF NextAlt(m.r) # 0 THEN [g EXCEPT !.r.pc = "attempt", !.r.i = NextAlt(m.r)]
     ELSE IF GuardVerdict(o) = "pass" THEN [g EXCEPT !.r.pc = "exit"]
     ELSE [g EXCEPT !.r = Finished(m.r)]

NoMatchNotifies(g) == [g EXCEPT !.r = Finished(g.r), !.log = Append(g.log, "change")]

\* transition(): the loop over the alternatives has ended, `// No guard
\* matched` and `return`
NoMatch(g) == [g EXCEPT !.r = Finished(g.r)]

\* the guard has settled with outcome o: attemptTransition continues, or
\* transition() tries the next alternative, or returns at the end of the list
AfterGuard(m, o) ==
  LET g == [m EXCEPT !.r.gres = Append(m.r.gres, GuardVerdict(o)), !.r.res = None,
                     !.r.ver = 0,
                     !.log = IF o \in {"throw", "missing"} THEN Append(m.log, "warn")
                             ELSE m.log]
  IN CASE GuardVerdict(o) = "pass" -> [g EXCEPT !.r.pc = "exit"]
       [] GuardVerdict(o) = "fail" /\ NextAlt(m.r) # 0 ->
            [g EXCEPT !.r.pc = "attempt", !.r.i = NextAlt(m.r)]
       [] GuardVerdict(o) = "fail" /\ NextAlt(m.r) = 0 -> NoMatch(g)
       [] OTHER -> [g EXCEPT !.r.pc = "throw", !.r.err = PlugError(o)]

\* executeLifecyclePlugs / the action loop: start iterating a plug list
Iterate(m, stage, list, next) ==
  IF list = <<>>
  THEN [m EXCEPT !.r.pc = next]
  ELSE [m EXCEPT !.r.pc = "callPlug", !.r.stage = stage, !.r.list = list, !.r.k = 1]

AfterEntryFirst(stage) ==
  CASE stage = "exit" -> "commit"
    [] stage = "actions" -> "emitChange"
    [] stage = "entry" -> "actions"

\* the order of the steps of attemptTransition
After(stage) ==
  CASE stage = "exit" -> "actions"
    [] stage = "actions" -> "commit"
    [] stage = "entry" -> "emitChange"

\* `if (currentPhaseObj?.exit) await executeLifecyclePlugs(currentPhaseObj.exit, event)`
Exit(m) ==
  Iterate([m EXCEPT !.r.from = m.phase, !.r.was = m.data], "exit", PhaseOf(m.phase).exit,
          After("exit"))

\* `if (actions) for (const action of actionList) await executePlug(action, event)`
Actions(m) == Iterate(m, "actions", Alt(m.r).actions, After("actions"))

\* what the runtime does with the value an action plug returns
\* (`await executePlug(action, event)`: the value is dropped)
MergeReturned(d, u) == d

\* executePlug(plugName, event): the plug function runs now, on the live data
\* object, and the caller awaits the promise of its result
CallPlug(m, style) ==
  LET name == m.r.list[m.r.k]
      st == IF style \in Styles(name) THEN style ELSE "pure"
      u == Update(name, m.data, m.r.event)
  IN IF Lookup(name) = "missing"
     THEN [m EXCEPT !.r.pc = "awaitPlug", !.r.res = "missing"]
     ELSE [m EXCEPT !.data = MergeReturned(assign(st, m.data, u), u),
                    !.r.pc = "awaitPlug", !.r.res = "pending",
                    !.r.ver = Version(name),
                    !.r.ret = u, !.r.style = st,
                    !.r.trace = Append(m.r.trace, name),
                    !.log = Append(m.log, name)]

\* the awaited plug has settled: next plug of the list, next step, or the throw
AfterPlug(m, o) ==
  LET c == [m EXCEPT !.r.res = None, !.r.ret = Empty, !.r.style = None, !.r.ver = 0] IN
  IF o = "ok"
  THEN IF m.r.k < Len(m.r.list)
       THEN [c EXCEPT !.r.pc = "callPlug", !.r.k = m.r.k + 1]
       ELSE [c EXCEPT !.r.pc = After(m.r.stage), !.r.list = <<>>, !.r.k = 0]
  ELSE [c EXCEPT !.r.pc = "throw", !.r.err = PlugError(o), !.r.list = <<>>, !.r.k = 0]

CommitKeepsError(m) ==
  [m EXCEPT !.phase = Alt(m.r).target, !.lastEvent = m.r.event,
            !.r.pc = "entry", !.r.trace = Append(m.r.trace, "#phase"),
            !.r.to = Alt(m.r).target,
            !.log = Append(m.log, "#phase")]

\* `currentPhase = targetPhase; error = undefined; lastEvent = event`
Commit(m) ==
  [m EXCEPT !.phase = Alt(m.r).target, !.error = NoError, !.lastEvent = m.r.event,
            !.r.pc = "entry", !.r.trace = Append(m.r.trace, "#phase"),
            !.r.to = Alt(m.r).target,
            !.log = Append(m.log, "#phase")]

\* `if (newPhase?.entry) await executeLifecyclePlugs(newPhase.entry, event)`
Entry(m) == Iterate(m, "entry", PhaseOf(m.phase).entry, After("entry"))

\* `emit('change', { phase: currentPhase, data: { ...data } })`
EmitChange(m) == [m EXCEPT !.r.pc = "checkFinal", !.log = Append(m.log, "change")]

\* `if (newPhase?.type === 'final') emit('done', { ...data })`
CheckFinal(m) ==
  [m EXCEPT !.r.pc = "invoke",
            !.r.dones = IF PhaseOf(Alt(m.r).target).final
                        THEN m.r.dones + 1 ELSE m.r.dones,
            !.log = IF PhaseOf(Alt(m.r).target).final
                    THEN Append(m.log, "done") ELSE m.log]

\* `if (newPhase?.invoke) await handleInvoke(newPhase.invoke)`, and in
\* handleInvoke `loading = true; emit('change', ...)`; else `return true`
Invoke(m) ==
  IF PhaseOf(Alt(m.r).target).invoke.src # None
  THEN [m EXCEPT !.loading = TRUE, !.r.pc = "callService",
                 !.r.stack = Append(m.r.stack, Frame(Alt(m.r).target, "try")),
                 !.log = Append(m.log, "change")]
  ELSE [m EXCEPT !.r = Finished(m.r)]

\* `const result = await executePlug(invoke.src, lastEvent, input)`
CallService(m) ==
  [m EXCEPT !.r.pc = "awaitService",
            !.r.res = Lookup(PhaseOf(Top(m.r).inv).invoke.src),
            !.r.ver = Version(PhaseOf(Top(m.r).inv).invoke.src),
            !.r.arg = ServiceInput(PhaseOf(Top(m.r).inv).invoke, m.data, m.lastEvent),
            !.r.trace = Append(m.r.trace, "#invoke"),
            !.log = Append(m.log, "#invoke")]

\* handleInvoke after the await: is the result of an invocation whose phase
\* has been left dropped?  (the code has no such test: every result is applied)
Discard(r) == FALSE

\* a fresh transition() of the same call chain (onDone / onError continuation)
Continue(r, alts, event) ==
  [r EXCEPT !.pc = "attempt", !.alts = alts, !.i = 1, !.event = event,
            !.gres = <<>>, !.gcalls = <<>>, !.trace = <<>>, !.res = None,
            !.err = NoError, !.from = None, !.to = None, !.ret = Empty, !.style = None,
            !.arg = NoEvent, !.ver = 0, !.dones = 0, !.was = Empty]

AfterServiceNoResult(m, o, v) ==
  LET inv == PhaseOf(Top(m.r).inv).invoke IN
  IF o = "resolve"
  THEN IF inv.onDone # <<>>
       THEN [m EXCEPT !.loading = FALSE,
                      !.r = Continue(m.r, inv.onDone,
                                     [type |-> "DONE", val |-> 0, error |-> NoError])]
       ELSE [m EXCEPT !.loading = FALSE, !.r = Finished(m.r)]
  ELSE [m EXCEPT !.r.pc = "catch", !.r.err = PlugError(o), !.r.res = None, !.r.ver = 0]

\* the service plug has settled: `loading = false; if (invoke.onDone) await
\* transition(invoke.onDone, { type: 'DONE', data: result })`, or the catch
AfterService(m, o, v) ==
  LET inv == PhaseOf(Top(m.r).inv).invoke IN
  IF Discard(m.r) THEN [m EXCEPT !.r = Finished(m.r)]
  ELSE IF o = "resolve"
  THEN IF inv.onDone # <<>>
       THEN [m EXCEPT !.loading = FALSE,
                      !.r = Continue(m.r, inv.onDone,
                                     [type |-> "DONE", val |-> v, error |-> NoError])]
       ELSE [m EXCEPT !.loading = FALSE, !.r = Finished(m.r)]
  ELSE [m EXCEPT !.r.pc = "catch", !.r.err = PlugError(o), !.r.res = None, !.r.ver = 0]

CatchKeepsLoading(m) ==
  LET inv == PhaseOf(Top(m.r).inv).invoke
      c == [m EXCEPT !.error = m.r.err, !.log = Append(m.log, "error")]
  IN IF inv.onError # <<>>
     THEN [c EXCEPT !.r = Continue(
                [m.r EXCEPT !.stack = [m.r.stack EXCEPT ![Len(m.r.stack)].mode = "catch"]],
                inv.onError, [type |-> "ERROR", val |-> 0, error |-> c.error])]
     ELSE [c EXCEPT !.r = Finished(m.r)]

\* handleInvoke's catch block
Catch(m) ==
  LET inv == PhaseOf(Top(m.r).inv).invoke
      c == [m EXCEPT !.loading = FALSE, !.error = m.r.err, !.log = Append(m.log, "error")]
  IN IF inv.onError # <<>>
     THEN [c EXCEPT !.r = Continue(
                [m.r EXCEPT !.stack = [m.r.stack EXCEPT ![Len(m.r.stack)].mode = "catch"]],
                inv.onError, [type |-> "ERROR", val |-> 0, error |-> c.error])]
     ELSE [c EXCEPT !.r = Finished(m.r)]

\* the innermost handleInvoke whose try block encloses the running call
TryFrame(stack) ==
  LET js == {j \in DOMAIN stack : stack[j].mode = "try"} IN
  IF js = {} THEN 0 ELSE CHOOSE j \in js : \A n \in js : n <= j

\* a plug of the transition threw: the exception unwinds to the enclosing
\* try of handleInvoke, or to do()'s `.catch`, or (start) is unhandled
Throw(m) ==
  LET j == TryFrame(m.r.stack) IN
  IF j # 0
  THEN [m EXCEPT !.r.pc = "catch", !.r.stack = SubSeq(m.r.stack, 1, j)]
  ELSE IF m.r.kind = "do"
  THEN [m EXCEPT !.r = Finished(m.r),
                 !.error = [message |-> m.r.err.message, code |-> None],
                 !.log = Append(m.log, "error")]
  ELSE [m EXCEPT !.r = Finished(m.r), !.log = Append(m.log, "unhandledRejection")]

\* one piece of code, by the position of the running call
Step(m, style) ==
  CASE m.r.pc = "attempt"     -> Attempt(m)
    [] m.r.pc = "exit"        -> Exit(m)
    [] m.r.pc = "actions"     -> Actions(m)
    [] m.r.pc = "callPlug"    -> CallPlug(m, style)
    [] m.r.pc = "commit"      -> Commit(m)
    [] m.r.pc = "entry"       -> Entry(m)
    [] m.r.pc = "emitChange"  -> EmitChange(m)
    [] m.r.pc = "checkFinal"  -> CheckFinal(m)
    [] m.r.pc = "invoke"      -> Invoke(m)
    [] m.r.pc = "callService" -> CallService(m)
    [] m.r.pc = "catch"       -> Catch(m)
    [] m.r.pc = "throw"       -> Throw(m)

\* run to the next await (or to the end of the call chain)
RECURSIVE Run(_, _)
Run(m, style) == IF m.r.pc \in Suspended THEN m ELSE Run(Step(m, style), style)

\* the runs from m, one for each way the plug called in it treats the data
Runs(m) == {Run(m, style) : style \in {"assign", "pure"}}

\* history variable: an invocation whose phase the session has left is stale
MarkStale(u, m) ==
  IF tasks[u].pc = "awaitService" /\ Top(tasks[u]).inv # m.phase
  THEN [tasks[u] EXCEPT !.stale = TRUE] ELSE tasks[u]

\* the run of call t ends: its effects become the session's state
Apply(t, m) ==
  /\ currentPhase' = m.phase
  /\ data' = m.data
  /\ loading' = m.loading
  /\ error' = m.error
  /\ lastEvent' = m.lastEvent
  /\ tasks' = [u \in (DOMAIN tasks) \cup {t} |-> IF u = t THEN m.r ELSE MarkStale(u, m)]
  /\ emitted' = m.log
  /\ restored' = NotRestored
  /\ UNCHANGED hostVars

\* ---------------------------------------------------------------- API
canWhileLoading == DOMAIN PhaseOf(currentPhase).on

\* can(): `if (!phase || loading) return []; return Object.keys(phase.on || {})`
can == IF loading THEN {} ELSE DOMAIN PhaseOf(currentPhase).on

where == [phase |-> currentPhase, data |-> data, loading |-> loading, error |-> error]

snapshot == [version |-> config.version, phase |-> currentPhase, data |-> data]

DoCount == Cardinality({t \in DOMAIN tasks : tasks[t].kind = "do"})

\* do(action, payload)
do(action, payload) ==
  IF action \notin DOMAIN PhaseOf(currentPhase).on
  THEN /\ emitted' = <<"warn">>
       /\ restored' = NotRestored
       /\ UNCHANGED <<currentPhase, data, loading, error, lastEvent,
                      eventHistory, plugs, tasks>>
       /\ UNCHANGED hostVars
  ELSE /\ DoCount < MaxDispatch
       /\ eventHistory' = Append(eventHistory,
              [type |-> action, payload |-> payload, phase |-> currentPhase])
       /\ \E m \in Runs(Mach(Task("do", PhaseOf(currentPhase).on[action],
                                   [type |-> action, val |-> payload, error |-> NoError],
                                   action \in can))) :
            Apply(Len(tasks) + 1, m)
       /\ UNCHANGED plugs

\* a guard plug settles
ResumeGuard(t) ==
  /\ tasks[t].pc = "awaitGuard"
  /\ \E o \in Settled(tasks[t].res, {"true", "false", "throw"}) :
     \E m \in Runs(AfterGuard(Resumed(tasks[t], o), o)) : Apply(t, m)
  /\ UNCHANGED <<eventHistory, plugs>>

\* an exit, transition or entry action plug settles
ResumePlug(t) ==
  /\ tasks[t].pc = "awaitPlug"
  /\ \E o \in Settled(tasks[t].res, {"ok", "throw"}) :
     \E m \in Runs(AfterPlug(Resumed(tasks[t], o), o)) : Apply(t, m)
  /\ UNCHANGED <<eventHistory, plugs>>

\* a service plug settles
ResumeService(t) ==
  /\ tasks[t].pc = "awaitService"
  /\ \E o \in Settled(tasks[t].res, {"resolve", "reject"}) :
     \E v \in IF o = "resolve" THEN Vals ELSE {0} :
     \E m \in Runs(AfterService(Resumed([tasks[t] EXCEPT !.result = v], o), o, v)) : Apply(t, m)
  /\ UNCHANGED <<eventHistory, plugs>>

\* use(newPlugs)
use(newPlugs) ==
  /\ plugs' = Merge(plugs, newPlugs)
  /\ plugs' # plugs
  /\ emitted' = <<>>
  /\ restored' = NotRestored
  /\ UNCHANGED <<currentPhase, data, loading, error, lastEvent, eventHistory, tasks>>
  /\ UNCHANGED hostVars

\* restore(snapshot) of the same factory: `this.start(snapshot.data)`
restore(snap) ==
  [phase |-> start(snap.data).phase, data |-> start(snap.data).data]

\* the host takes a snapshot and restores a second session from it
SnapshotRestore ==
  /\ restored' = [done |-> TRUE,
                  snap |-> [phase |-> snapshot.phase, data |-> snapshot.data],
                  where |-> restore(snapshot)]
  /\ emitted' = <<>>
  /\ UNCHANGED <<currentPhase, data, loading, error, lastEvent, eventHistory,
                 plugs, tasks>>
  /\ UNCHANGED hostVars

\* the events the current phase declares; one other event stands for all the
\* events it does not declare (do() treats them alike)
Declared == DOMAIN PhaseOf(currentPhase).on

Next ==
  \/ \E e \in Declared : \E p \in Payloads(e) : do(e, p)
  \/ \E e \in {CHOOSE x \in EventNames \ Declared : TRUE} : do(e, 0)
  \/ \E t \in DOMAIN tasks : ResumeGuard(t)
  \/ \E t \in DOMAIN tasks : ResumePlug(t)
  \/ \E t \in DOMAIN tasks : ResumeService(t)
  \/ \E ps \in UseSets : use(ps)
  \/ SnapshotRestore

Spec == Init /\ [][Next]_vars

\* the program with every plug registered before start()
InitUse ==
  /\ NoIntrospection
  /\ program = [initial |-> config.initial, declared |-> config.declared]
  /\ plugs = Registry(PlugNames)
  /\ Started

NextUse ==
  \/ \E e \in Declared : \E p \in Payloads(e) : do(e, p)
  \/ \E t \in DOMAIN tasks : ResumeGuard(t)
  \/ \E t \in DOMAIN tasks : ResumePlug(t)
  \/ \E t \in DOMAIN tasks : ResumeService(t)
  \/ \E ps \in SwapSets : use(ps)

\* sessions in which the host swaps plugs between and during dispatches
SpecUse == InitUse /\ [][NextUse]_vars

\* the session's variables, which no step of the host writes
sessionVars == <<currentPhase, data, loading, error, lastEvent, eventHistory,
                 plugs, tasks>>

\* where().data and snapshot().data: `data: { ...data }`, a new object with
\* the same field values; an array field is the same array object
ShallowCopy(d) == [k \in DOMAIN d |-> d[k]]

\* a data object as it reads with heap h: an array value Arr(v) is the array
\* object created with content v, followed by what was pushed onto it
Deep(d, h) ==
  [k \in DOMAIN d |->
     IF d[k].t = "array" THEN [t |-> "array", v |-> d[k].v, pushed |-> h[d[k].v]]
     ELSE d[k]]

\* the host calls where() or snapshot() and keeps the data it returns
HostTake ==
  /\ ~held.taken
  /\ \E api \in {"where", "snapshot"} :
       held' = [taken |-> TRUE, api |-> api,
                data |-> ShallowCopy(IF api = "where" THEN where.data ELSE snapshot.data)]
  /\ emitted' = <<>>
  /\ UNCHANGED <<restored, program, heap, replayed, introVars>>
  /\ UNCHANGED sessionVars

\* the host assigns a field of the object it was given
HostSetField ==
  /\ held.taken
  /\ held.data["total"] # Num(9)
  /\ held' = [held EXCEPT !.data["total"] = Num(9)]
  /\ emitted' = <<>>
  /\ UNCHANGED <<restored, program, heap, replayed, introVars>>
  /\ UNCHANGED sessionVars

\* the host pushes an element onto an array of the object it was given
HostPush ==
  /\ held.taken
  /\ Len(heap[held.data["items"].v]) < MaxPush
  /\ heap' = [heap EXCEPT ![held.data["items"].v] = Append(@, 9)]
  /\ emitted' = <<>>
  /\ UNCHANGED <<restored, program, held, replayed, introVars>>
  /\ UNCHANGED sessionVars

NextCopy ==
  \/ \E e \in Declared : \E p \in Payloads(e) : do(e, p)
  \/ \E t \in DOMAIN tasks : ResumeGuard(t)
  \/ \E t \in DOMAIN tasks : ResumePlug(t)
  \/ \E t \in DOMAIN tasks : ResumeService(t)
  \/ HostTake
  \/ HostSetField
  \/ HostPush

\* a session and a host that keeps and changes what where() / snapshot() gave
SpecCopy == InitUse /\ [][NextCopy]_vars

\* ---------------------------------------------------------------- replay
\* Deterministic plugs: a guard answers by the event's payload, an action is
\* wrapped in assign() and returns, a service resolves with the same value.
GuardAnswer(r) == IF r.event.val = 1 THEN "true" ELSE "false"
ServiceAnswer == 1
PlugStyle == "assign"

\* a pending call of a deterministic plug settles
SettleGuard(t) ==
  /\ tasks[t].pc = "awaitGuard"
  /\ LET o == IF tasks[t].res = "missing" THEN "missing" ELSE GuardAnswer(tasks[t])
     IN Apply(t, Run(AfterGuard(Resumed(tasks[t], o), o), PlugStyle))
  /\ UNCHANGED <<eventHistory, plugs>>

SettlePlug(t) ==
  /\ tasks[t].pc = "awaitPlug"
  /\ LET o == IF tasks[t].res = "missing" THEN "missing" ELSE "ok"
     IN Apply(t, Run(AfterPlug(Resumed(tasks[t], o), o), PlugStyle))
  /\ UNCHANGED <<eventHistory, plugs>>

SettleService(t) ==
  /\ tasks[t].pc = "awaitService"
  /\ LET o == IF tasks[t].res = "missing" THEN "missing" ELSE "resolve"
         v == IF o = "resolve" THEN ServiceAnswer ELSE 0
     IN Apply(t, Run(AfterService(Resumed([tasks[t] EXCEPT !.result = v], o), o, v),
                     PlugStyle))
  /\ UNCHANGED <<eventHistory, plugs>>

\* do() while the session is the one whose history will be replayed
doRecorded(action, payload) ==
  /\ ~replayed.done
  /\ action \in DOMAIN PhaseOf(currentPhase).on
  /\ DoCount < MaxDispatch
  /\ eventHistory' = Append(eventHistory,
         [type |-> action, payload |-> payload, phase |-> currentPhase])
  /\ Apply(Len(tasks) + 1,
           Run(Mach(Task("do", PhaseOf(currentPhase).on[action],
                         [type |-> action, val |-> payload, error |-> NoError],
                         action \in can)), PlugStyle))
  /\ UNCHANGED plugs

\* a fresh start(initialData) of the program, as a value
Fresh(initialData) ==
  [ phase |-> start(initialData).phase, data |-> start(initialData).data,
    loading |-> start(initialData).loading, error |-> NoError,
    lastEvent |-> InitEvent, eventHistory |-> <<>>, tasks |-> <<>>, log |-> <<>> ]

\* one do(entry.type, entry.payload) of replay's loop on session s: the call
\* runs to its first await and the loop goes on
doEntry(s, entry) ==
  IF entry.type \notin DOMAIN PhaseOf(s.phase).on
  THEN [s EXCEPT !.log = Append(s.log, "warn")]
  ELSE LET m == Run([ phase |-> s.phase, data |-> s.data, loading |-> s.loading,
                      error |-> s.error, lastEvent |-> s.lastEvent,
                      r |-> Task("do", PhaseOf(s.phase).on[entry.type],
                                 [type |-> entry.type, val |-> entry.payload,
                                  error |-> NoError],
                                 ~s.loading),
                      log |-> <<>> ], PlugStyle)
       IN [ phase |-> m.phase, data |-> m.data, loading |-> m.loading,
            error |-> m.error, lastEvent |-> m.lastEvent,
            eventHistory |-> Append(s.eventHistory,
                [type |-> entry.type, payload |-> entry.payload, phase |-> s.phase]),
            tasks |-> Append([u \in DOMAIN s.tasks |->
                                IF s.tasks[u].pc = "awaitService"
                                   /\ Top(s.tasks[u]).inv # m.phase
                                THEN [s.tasks[u] EXCEPT !.stale = TRUE]
                                ELSE s.tasks[u]], m.r),
            log |-> s.log \o m.log ]

\* `for (const entry of history) this.do(entry.type, entry.payload)`
RECURSIVE replayLoop(_, _)
replayLoop(s, history) ==
  IF history = <<>> THEN s
  ELSE replayLoop(doEntry(s, Head(history)), Tail(history))

Quiescent == \A t \in DOMAIN tasks : tasks[t].pc = "done"

\* the first session has finished its work; the host starts the program
\* again with the same plugs and initial data and calls replay(S.history())
replay ==
  /\ ~replayed.done
  /\ Quiescent
  /\ eventHistory # <<>>
  /\ replayed' = [done |-> TRUE, phase |-> currentPhase, data |-> data,
                  history |-> eventHistory]
  /\ LET s == replayLoop(Fresh(Empty), eventHistory)
     IN /\ currentPhase' = s.phase
        /\ data' = s.data
        /\ loading' = s.loading
        /\ error' = s.error
        /\ lastEvent' = s.lastEvent
        /\ eventHistory' = s.eventHistory
        /\ tasks' = s.tasks
        /\ emitted' = s.log
  /\ restored' = NotRestored
  /\ UNCHANGED <<plugs, program, heap, held, introVars>>

InitReplay ==
  /\ InitUse
  /\ data = start(Empty).data

NextReplay ==
  \/ \E e \in Declared : \E p \in Payloads(e) : doRecorded(e, p)
  \/ \E t \in DOMAIN tasks : SettleGuard(t)
  \/ \E t \in DOMAIN tasks : SettlePlug(t)
  \/ \E t \in DOMAIN tasks : SettleService(t)
  \/ replay

\* a session of deterministic plugs, then the replay of its history on a
\* fresh session
SpecReplay == InitReplay /\ [][NextReplay]_vars

\* ---------------------------------------------------------------- one dispatch at a time
\* the program started with or without the plugs that config.plugs lacks
InitSeq ==
  /\ NoIntrospection
  /\ program = [initial |-> config.initial, declared |-> config.declared]
  /\ plugs \in {Registry(config.plugs), Registry(PlugNames)}
  /\ Started

\* the host calls do() only when the work of the earlier calls has ended
NextSeq ==
  \/ /\ \A t \in DOMAIN tasks : tasks[t].pc = "done"
     /\ \E e \in Declared : \E p \in Payloads(e) : do(e, p)
  \/ \E t \in DOMAIN tasks : ResumeGuard(t)
  \/ \E t \in DOMAIN tasks : ResumePlug(t)
  \/ \E t \in DOMAIN tasks : ResumeService(t)

\* sessions in which no two call chains overlap
SpecSeq == InitSeq /\ [][NextSeq]_vars

\* ---------------------------------------------------------------- introspection
\* The phase tables introspect() is asked about: phases 1..MaxNodes, the
\* first one initial; for each phase the targets of its `on` table, whether
\* its type is 'final', and the target of its invocation's onDone (0: none).
Nodes == 1 .. MaxNodes

\* a phase name that the table does not declare
Undeclared == MaxNodes + 1

Graphs ==
  [ declared : {Nodes}, on : [Nodes -> SUBSET Nodes], final : SUBSET Nodes,
    onDone : {[n \in Nodes |-> 0]} ]

RECURSIVE Listed(_)
Listed(S) ==
  IF S = {} THEN <<>>
  ELSE LET x == CHOOSE a \in S : \A b \in S : a <= b IN <<x>> \o Listed(S \ {x})

\* `Object.values(phaseObj?.on || {}).flat().map(t => target of t)`
Targets(g, phase) == IF phase \in g.declared THEN Listed(g.on[phase]) ELSE <<>>

IsFinalAny(g, phase) == TRUE

\* `phaseObj?.type === 'final'`
IsFinal(g, phase) == phase \in g.declared /\ phase \in g.final

\* the call dfs(phase, path) of allPaths, up to its loop over the targets
Visit(w, phase, path) ==
  IF phase \in w.visited THEN w
  ELSE IF IsFinal(graph, phase)
  THEN [w EXCEPT !.paths = Append(@, Append(path, phase))]
  ELSE IF Targets(graph, phase) = <<>>
  THEN [w EXCEPT !.paths = Append(@, Append(path, phase))]
  ELSE [w EXCEPT !.visited = @ \cup {phase},
                 !.stack = Append(@, [phase |-> phase, path |-> Append(path, phase),
                                      rest |-> Targets(graph, phase)])]

\* introspect().allPaths() is called: `dfs(initial, [])`
allPaths ==
  /\ walk.status = "none"
  /\ walk' = Visit([status |-> "running", op |-> "allPaths", stack |-> <<>>,
                    visited |-> {}, paths |-> <<>>], 1, <<>>)
  /\ UNCHANGED <<graph, program, heap, held, replayed, emitted, restored>>
  /\ UNCHANGED sessionVars

\* one iteration of `for (const target of targets) dfs(target, currentPath)`
\* in the innermost call, or its end (`visited.delete(phase)`), or the
\* `return paths` of allPaths
allPathsStep ==
  /\ walk.status = "running"
  /\ walk.op = "allPaths"
  /\ LET n == Len(walk.stack) IN
     IF n = 0
     THEN walk' = [walk EXCEPT !.status = "returned"]
     ELSE IF walk.stack[n].rest = <<>>
     THEN walk' = [walk EXCEPT !.visited = @ \ {walk.stack[n].phase},
                               !.stack = SubSeq(@, 1, n - 1)]
     ELSE walk' = Visit([walk EXCEPT !.stack[n].rest = Tail(@)],
                        Head(walk.stack[n].rest), walk.stack[n].path)
  /\ UNCHANGED <<graph, program, heap, held, replayed, emitted, restored>>
  /\ UNCHANGED sessionVars

\* a started session of the program and any phase table to introspect
InitGraph ==
  /\ program = [initial |-> config.initial, declared |-> config.declared]
  /\ plugs = Registry(config.plugs)
  /\ Started
  /\ data = start(Empty).data
  /\ graph \in Graphs
  /\ walk = NoWalk

NextPaths == allPaths \/ allPathsStep

\* allPaths() on every phase table, each step of the search scheduled
SpecPaths == InitGraph /\ [][NextPaths]_vars /\ WF_vars(NextPaths)

RemainingNone(rest) == <<>>

\* `for (const target of targets)`: the targets still to be tried
Remaining(rest) == Tail(rest)

\* the call dfs(current) of canReach, up to its loop over the targets; a call
\* that returns true makes every caller return true
Enter(w, current) ==
  IF current = w.to
  THEN [w EXCEPT !.status = "returned", !.result = TRUE, !.stack = <<>>]
  ELSE IF current \in w.visited THEN w
  ELSE [w EXCEPT !.visited = @ \cup {current},
                 !.stack = Append(@, [phase |-> current, rest |-> Targets(graph, current)])]

\* introspect().canReach(from, to) is called: `return dfs(from)`
canReach(from, to) ==
  /\ walk.status = "none"
  /\ walk' = Enter([status |-> "running", op |-> "canReach", from |-> from, to |-> to,
                    stack |-> <<>>, visited |-> {}, result |-> FALSE], from)
  /\ UNCHANGED <<graph, program, heap, held, replayed, emitted, restored>>
  /\ UNCHANGED sessionVars

\* one iteration of `for (const target of targets) if (dfs(target)) return
\* true` in the innermost call, or its `return false`
canReachStep ==
  /\ walk.status = "running"
  /\ walk.op = "canReach"
  /\ LET n == Len(walk.stack) IN
     IF walk.stack[n].rest = <<>>
     THEN walk' = [walk EXCEPT !.stack = SubSeq(@, 1, n - 1),
                               !.status = IF n = 1 THEN "returned" ELSE @]
     ELSE walk' = Enter([walk EXCEPT !.stack[n].rest = Remaining(@)],
                        Head(walk.stack[n].rest))
  /\ UNCHANGED <<graph, program, heap, held, replayed, emitted, restored>>
  /\ UNCHANGED sessionVars

\* the phase tables without final phases (canReach does not read `type`)
InitReach ==
  /\ InitGraph
  /\ graph.final = {}

NextReach ==
  \/ \E from, to \in Nodes \cup {Undeclared} : canReach(from, to)
  \/ canReachStep

\* canReach() on every phase table, each step of the search scheduled
SpecReach == InitReach /\ [][NextReach]_vars /\ WF_vars(NextReach)

invokeDoneNone(g, from) == 0

\* `typeof invokeDone === 'string' ? invokeDone : invokeDone?.target` of a
\* declared phase; 0 when the phase has no invocation or no onDone
invokeDoneTarget(g, from) == g.onDone[from]

\* the loop of pathExists from pair i on
RECURSIVE pathExistsFrom(_, _, _)
pathExistsFrom(g, path, i) ==
  IF ~(i < Len(path)) THEN TRUE
  ELSE IF path[i] \notin g.declared THEN FALSE
  ELSE IF path[i + 1] \notin g.on[path[i]]
          /\ (invokeDoneTarget(g, path[i]) = 0
              \/ invokeDoneTarget(g, path[i]) # path[i + 1])
  THEN FALSE
  ELSE pathExistsFrom(g, path, i + 1)

\* pathExists(path): `if (path.length < 2) return true`, then the loop
pathExists(g, path) == IF Len(path) < 2 THEN TRUE ELSE pathExistsFrom(g, path, 1)

\* introspect().pathExists(path) is called and returns
pathExistsCall(path) ==
  /\ walk.status = "none"
  /\ walk' = [status |-> "returned", op |-> "pathExists", path |-> path,
              result |-> pathExists(graph, path)]
  /\ UNCHANGED <<graph, program, heap, held, replayed, emitted, restored>>
  /\ UNCHANGED sessionVars

\* the sequences of at most MaxPath phase names
Paths == UNION {[1 .. n -> Nodes \cup {Undeclared}] : n \in 0 .. MaxPath}

\* the phase tables in which at most one phase has an invocation with onDone
InitExists ==
  /\ program = [initial |-> config.initial, declared |-> config.declared]
  /\ plugs = Registry(config.plugs)
  /\ Started
  /\ data = start(Empty).data
  /\ graph \in [ declared : {Nodes}, on : [Nodes -> SUBSET Nodes], final : {{}},
                  onDone : {f \in [Nodes -> Nodes \cup {0}] :
                              Cardinality({n \in Nodes : f[n] # 0}) <= 1} ]
  /\ walk = NoWalk

\* pathExists() of every sequence on every such phase table
SpecExists == InitExists /\ [][\E path \in Paths : pathExistsCall(path)]_vars

\* canReach() between declared phases of the phase tables of InitExists
NextAgree ==
  \/ \E from, to \in Nodes : canReach(from, to)
  \/ canReachStep

\* canReach() on phase tables with an invocation, to compare with pathExists()
SpecAgree == InitExists /\ [][NextAgree]_vars

\* ---------------------------------------------------------------- data schemas
\* field definitions of a data schema: a type, with or without a default
FieldDefs ==
  [ type : {"string", "number", "boolean", "array", "object"},
    hasDefault : {FALSE}, default : {Num(0)} ]
  \cup [ type : {"number"}, hasDefault : {TRUE}, default : {Num(0), Num(2)} ]

Schemas == [{"total", "tag"} -> FieldDefs]

\* the objects start() is given: any of three fields, one of them not in the
\* schema, each with a falsy value, another value, or `undefined`
Givens ==
  UNION {[K -> {Num(0), Num(1), Undefined}] : K \in SUBSET {"total", "tag", "coupon"}}

\* start(initialData) of a program with data schema `schema` computes its data
initializeDataCall(schema, given) ==
  /\ walk.status = "none"
  /\ walk' = [status |-> "returned", op |-> "initializeData", schema |-> schema,
              given |-> given, result |-> initializeData(schema, given)]
  /\ UNCHANGED <<graph, program, heap, held, replayed, emitted, restored>>
  /\ UNCHANGED sessionVars

\* the data of a session for every schema and every start() argument
SpecData ==
  Init /\ [][\E schema \in Schemas : \E given \in Givens :
                initializeDataCall(schema, given)]_vars

\* ---------------------------------------------------------------- validation
\* (packages/protocol/src/validation.ts)
Str == [t |-> "string", v |-> 0]
Obj(fields) == [t |-> "object", fields |-> fields]
List(items) == [t |-> "array", items |-> items]

\* a schema is the list of its entries in declaration order
FieldEntry(key, field) == [key |-> key, field |-> field]

\* a field definition; ref is the model name of its `$ref` (None: no $ref), type
\* None an absent `type`
Field(type, required, hasMin, min, properties, items) ==
  [ type |-> type, required |-> required, hasMin |-> hasMin, min |-> min,
    properties |-> properties, items |-> items, ref |-> None ]

\* { $ref: '#/models/<name>' }
Ref(name) == [Field(None, FALSE, FALSE, 0, <<>>, <<>>) EXCEPT !.ref = name]

\* `models` of a program without models
NoModels == [n \in {} |-> <<>>]

\* resolveFieldRef(field, models): the field itself without $ref; a throw when
\* the model is not found; else `{ type: 'object', properties: model, ...field }`
resolveFieldRef(field, models) ==
  IF field.ref = None THEN [threw |-> FALSE, field |-> field]
  ELSE IF field.ref \notin DOMAIN models THEN [threw |-> TRUE, field |-> field]
  ELSE [threw |-> FALSE,
        field |-> [field EXCEPT
                     !.type = IF field.type = None THEN "object" ELSE field.type,
                     !.properties = IF field.properties = <<>> THEN models[field.ref]
                                    ELSE field.properties]]

\* { type: 'number', min: 18 }, and the same required
Age == Field("number", FALSE, TRUE, 18, <<>>, <<>>)
AgeRequired == Field("number", TRUE, TRUE, 18, <<>>, <<>>)

\* { type: 'object', properties: { age: { type: 'number', min: 18, required: true } } }
Person == Field("object", FALSE, FALSE, 0, <<FieldEntry("age", AgeRequired)>>, <<>>)

\* { type: 'array', items: item }
ListOf(item) == Field("array", FALSE, FALSE, 0, <<>>, <<item>>)

\* the schemas validated: a number, an object and an array field, declared in
\* any order; the array's items are numbers or objects
\* the entries of S in every declaration order
Orders(S) ==
  {q \in [1 .. Cardinality(S) -> S] : \A a, b \in DOMAIN q : a # b => q[a] # q[b]}

ValidatedSchemas ==
  UNION { Orders({FieldEntry("age", Age), FieldEntry("home", Person),
                        FieldEntry("list", ListOf(item))}) : item \in {Age, Person} }

\* the values validated: each field absent, valid, or invalid in one way
Persons == {Obj(Empty), Obj([k \in {"age"} |-> Num(12)]), Obj([k \in {"age"} |-> Num(20)])}

ItemValues == {Num(12), Obj([k \in {"age"} |-> Num(12)]), Obj([k \in {"age"} |-> Num(20)])}

FieldValues(key) ==
  CASE key = "age"  -> {Num(12), Num(20), Str}
    [] key = "home" -> {Str} \cup Persons
    [] key = "list" -> {List(q) : q \in UNION {[1 .. n -> ItemValues] : n \in 0 .. 2}}

ValidatedValues ==
  { Obj(f) : f \in UNION { {g \in [K -> UNION {FieldValues(k) : k \in K}] :
                              \A k \in K : g[k] \in FieldValues(k)}
                           : K \in SUBSET {"age", "home", "list"} } }

\* `value[key]`
Get(value, key) == IF key \in DOMAIN value.fields THEN value.fields[key] ELSE Undefined

\* getActualType
getActualType(value) == value.t

IndexName(i) == IF i = 1 THEN "[0]" ELSE "[1]"

Violation(path, kind) == [path |-> path, kind |-> kind]

\* validateNumber: the min rule
validateNumber(value, field, context) ==
  IF field.hasMin /\ value.v < field.min THEN <<Violation(context, "min")>> ELSE <<>>

\* a nested validateSchema call threw inside validateSchema: nothing catches
\* it, the exception of the nested call leaves the outer call
Nested(r, errors) == r

\* resolveFieldRef threw `Model reference not found`: the exception leaves
\* validateSchema, what was collected so far is dropped
NotFound(context) == [threw |-> TRUE, errors |-> <<Violation(context, "ref")>>]

RECURSIVE validateEntries(_, _, _, _, _, _)
RECURSIVE validateItems(_, _, _, _, _, _)

\* the loop of validateArray over the items, from item i on: the errors array
\* after the loop
validateItems(value, itemSchema, models, context, errors, i) ==
  IF i > Len(value.items) THEN errors
  ELSE LET item == value.items[i]
           itemContext == Append(context, IndexName(i))
       IN IF itemSchema.type # None /\ getActualType(item) # itemSchema.type
          THEN validateItems(value, itemSchema, models, context,
                             Append(errors, Violation(itemContext, "type")), i + 1)
          ELSE IF itemSchema.type = "object" /\ itemSchema.properties # <<>>
          THEN validateItems(value, itemSchema, models, context,
                 errors \o validateEntries(item, itemSchema.properties, models,
                                           itemContext, <<>>, 1).errors,
                 i + 1)
          ELSE validateItems(value, itemSchema, models, context, errors, i + 1)

\* validateArray(value, itemSchema, models, context, errors):
\* `const resolvedItemSchema = resolveFieldRef(itemSchema, models)`, then the loop
validateArray(value, itemSchema, models, context, errors) ==
  LET resolved == resolveFieldRef(itemSchema, models) IN
  IF resolved.threw THEN NotFound(context)
  ELSE [threw |-> FALSE,
        errors |-> validateItems(value, resolved.field, models, context, errors, 1)]

\* the loop of validateSchema over the schema's entries, from entry i on, and
\* its end: `if (errors.length > 0) throw new ValidationError(errors.join('; '))`
validateEntries(value, schema, models, context, errors, i) ==
  IF i > Len(schema) THEN [threw |-> errors # <<>>, errors |-> errors]
  ELSE LET key == schema[i].key
           fieldValue == Get(value, key)
           fieldContext == Append(context, key)
           resolved == resolveFieldRef(schema[i].field, models)
           field == resolved.field
       IN IF schema[i].field.required /\ fieldValue = Undefined
          THEN validateEntries(value, schema, models, context,
                               Append(errors, Violation(fieldContext, "required")), i + 1)
          ELSE IF fieldValue = Undefined
          THEN validateEntries(value, schema, models, context, errors, i + 1)
          ELSE IF resolved.threw THEN NotFound(fieldContext)
          ELSE IF field.type = None
          THEN validateEntries(value, schema, models, context, errors, i + 1)
          ELSE IF getActualType(fieldValue) # field.type
          THEN validateEntries(value, schema, models, context,
                               Append(errors, Violation(fieldContext, "type")), i + 1)
          ELSE IF field.type = "number"
          THEN validateEntries(value, schema, models, context,
                               errors \o validateNumber(fieldValue, field, fieldContext), i + 1)
          ELSE IF field.type = "array" /\ field.items # <<>>
          THEN LET a == validateArray(fieldValue, field.items[1], models, fieldContext, errors)
               IN IF a.threw THEN a
                  ELSE validateEntries(value, schema, models, context, a.errors, i + 1)
          ELSE IF field.type = "object" /\ field.properties # <<>>
          THEN LET r == validateEntries(fieldValue, field.properties, models, fieldContext,
                                        <<>>, 1)
               IN IF r.threw THEN Nested(r, errors)
                  ELSE validateEntries(value, schema, models, context, errors, i + 1)
          ELSE validateEntries(value, schema, models, context, errors, i + 1)

\* validateSchema(value, schema, models): returns, or throws a ValidationError
\* that carries `errors`
validateSchema(value, schema, models) ==
  validateEntries(value, schema, models, <<"Value">>, <<>>, 1)

validateSchemaCall(value, schema, models) ==
  /\ walk.status = "none"
  /\ walk' = [status |-> "returned", op |-> "validateSchema", value |-> value,
              schema |-> schema, models |-> models,
              result |-> validateSchema(value, schema, models)]
  /\ UNCHANGED <<graph, program, heap, held, replayed, emitted, restored>>
  /\ UNCHANGED sessionVars

\* validateSchema of every value against every schema
SpecValidate ==
  Init /\ [][\E value \in ValidatedValues : \E schema \in ValidatedSchemas :
                validateSchemaCall(value, schema, NoModels)]_vars

\* ---------------------------------------------------------------- model references
\* models that refer to each other in a cycle: Node to itself, A to B and back
CyclicModels ==
  { [n \in {"Node"} |-> <<FieldEntry("next", Ref("Node")), FieldEntry("age", Age)>>],
    [n \in {"A", "B"} |->
       IF n = "A" THEN <<FieldEntry("b", Ref("B"))>> ELSE <<FieldEntry("a", Ref("A"))>>] }

\* the data schema of a program with these models: one field of the first model
RootSchema(models) ==
  <<FieldEntry("root", Ref(IF "Node" \in DOMAIN models THEN "Node" ELSE "A"))>>

\* finite values: objects nested through one field up to depth n, which end
\* in an empty object, a string or a number
RECURSIVE Nestings(_)
Nestings(n) ==
  IF n = 0 THEN {Obj(Empty), Str, Num(12)}
  ELSE Nestings(n - 1)
         \cup {Obj([k \in {key} |-> v]) : key \in {"next", "age", "a", "b"},
                                          v \in Nestings(n - 1)}

RefValues == {Obj([k \in {"root"} |-> v]) : v \in Nestings(MaxDepth)}

\* validateSchema of every finite value against schemas with cyclic models
SpecRefs ==
  Init /\ [][\E models \in CyclicModels : \E value \in RefValues :
                validateSchemaCall(value, RootSchema(models), models)]_vars

\* ---------------------------------------------------------------- history
\* clearHistory(): `eventHistory.length = 0` (on an empty history it changes
\* nothing)
clearHistory ==
  /\ eventHistory # <<>>
  /\ eventHistory' = <<>>
  /\ emitted' = <<>>
  /\ restored' = NotRestored
  /\ UNCHANGED <<currentPhase, data, loading, error, lastEvent, plugs, tasks>>
  /\ UNCHANGED hostVars

historyNoCopy == [alias |-> TRUE, list |-> <<>>]

\* history(): `return [...eventHistory]`, a new array with the entries of
\* eventHistory at the call (alias: the array is eventHistory itself)
history == [alias |-> FALSE, list |-> eventHistory]

\* the host calls history() and keeps the array it returns
HostHistory ==
  /\ ~held.taken
  /\ held' = [taken |-> TRUE, api |-> "history", array |-> history, edited |-> FALSE]
  /\ emitted' = <<>>
  /\ UNCHANGED <<restored, program, heap, replayed, introVars>>
  /\ UNCHANGED sessionVars

\* an entry the host makes up
HostEntry == [type |-> "FORGED", payload |-> 0, phase |-> None]

\* the array operations of the host: push, truncation, assignment to the
\* first slot
Edited(list) ==
  {Append(list, HostEntry), <<>>}
    \cup (IF list = <<>> THEN {} ELSE {[list EXCEPT ![1] = HostEntry]})

\* the array the host holds, as it reads now
HostArray == IF held.array.alias THEN eventHistory ELSE held.array.list

\* the host changes the array that history() gave it
HostEdit ==
  /\ held.taken
  /\ ~held.edited
  /\ \E list \in Edited(HostArray) \ {HostArray} :
       IF held.array.alias
       THEN /\ eventHistory' = list
            /\ held' = [held EXCEPT !.edited = TRUE]
       ELSE /\ eventHistory' = eventHistory
            /\ held' = [held EXCEPT !.edited = TRUE, !.array.list = list]
  /\ emitted' = <<>>
  /\ UNCHANGED <<restored, program, heap, replayed, introVars>>
  /\ UNCHANGED <<currentPhase, data, loading, error, lastEvent, plugs, tasks>>

NextHistory ==
  \/ /\ \A t \in DOMAIN tasks : tasks[t].pc = "done"
     /\ \E e \in Declared : \E p \in Payloads(e) : do(e, p)
  \/ \E t \in DOMAIN tasks : ResumeGuard(t)
  \/ \E t \in DOMAIN tasks : ResumePlug(t)
  \/ \E t \in DOMAIN tasks : ResumeService(t)
  \/ clearHistory
  \/ HostHistory
  \/ HostEdit

\* a session whose host reads, edits and clears the history
SpecHistory == InitReplay /\ [][NextHistory]_vars

\* ---------------------------------------------------------------- sessions of one factory
\* `let plugs = { ...config.plugs }` is a variable of createBlackbox: every
\* session that start() returns reads and writes this one object.  The
\* variable plugs of the model is that object; a second session of the
\* factory, started together with the first, looks its plugs up in it.
otherLookup(name) == plugs[name]

\* the second session calls executePlug(name): `const plug = plugs[plugName]`
otherExecutePlug(name) ==
  /\ walk.status = "none"
  /\ walk' = [status |-> "returned", op |-> "executePlug", name |-> name,
              ver |-> otherLookup(name)]
  /\ UNCHANGED <<graph, program, heap, held, replayed, emitted, restored>>
  /\ UNCHANGED sessionVars

\* use() calls of the first session: another plug for one guard or service
GivenSets == { [n \in {x} |-> 2] : x \in GuardNames \cup ServiceNames }

NextFactory ==
  \/ \E ps \in GivenSets : use(ps)
  \/ \E name \in PlugNames : otherExecutePlug(name)

\* two sessions of one factory: the first calls use(), the second calls a plug
SpecFactory == InitUse /\ [][NextFactory]_vars

\* ---------------------------------------------------------------- invocation input
\* what an input computer `invoke.input(data, lastEvent)` may return:
\* undefined, or '', 0, false, [], {}, null
Computed ==
  {Undefined} \cup {getDefaultForType(type) :
                      type \in {"string", "number", "boolean", "array", "object", "null"}}

\* the invocations of a phase: without an input computer, or with one that
\* returns `returns`
Invocations ==
  {i \in [hasInput : BOOLEAN, returns : Computed] : ~i.hasInput => i.returns = Undefined}

\* the values lastEvent takes in a session: the INIT event, a dispatched
\* event, the DONE or ERROR event of a continuation
LastEvents ==
  {InitEvent}
    \cup {[type |-> e, val |-> p, error |-> NoError] : e \in EventNames, p \in Vals \cup {0}}
    \cup {[type |-> "DONE", val |-> v, error |-> NoError] : v \in Vals}
    \cup {[type |-> "ERROR", val |-> 0, error |-> PlugError(o)] : o \in {"reject", "missing"}}

\* handleInvoke: `let input = lastEvent; if (invoke.input) input =
\* invoke.input(data, lastEvent)`
computeInput(invoke, event) == IF invoke.hasInput THEN invoke.returns ELSE event

\* executePlug(plugName, event, computedInput):
\* `const input = computedInput !== undefined ? computedInput : event`
plugInput(event, computedInput) ==
  IF computedInput # Undefined THEN computedInput ELSE event

\* handleInvoke(invoke) with lastEvent = event makes its call
\* `executePlug(invoke.src, lastEvent, input)`, which calls `plugFn(data, input, blackbox)`
handleInvokeCall(invoke, event) ==
  /\ walk.status = "none"
  /\ walk' = [status |-> "returned", op |-> "handleInvoke", invoke |-> invoke,
              lastEvent |-> event, data |-> data,
              passed |-> <<data, plugInput(event, computeInput(invoke, event))>>]
  /\ UNCHANGED <<graph, program, heap, held, replayed, emitted, restored>>
  /\ UNCHANGED sessionVars

\* the service call of every invocation after every event
SpecInput ==
  Init /\ [][\E invoke \in Invocations : \E event \in LastEvents :
                handleInvokeCall(invoke, event)]_vars

\* phase names of the programs given to createBlackbox in SpecBoot
BootNames == {"idle", "searching", "1", "2", "10"}

\* the phase tables: up to MaxDeclared different names in declaration order
Declarations ==
  UNION { {d \in [1..n -> BootNames] : \A a, b \in 1..n : a # b => d[a] # d[b]}
          : n \in 1..MaxDeclared }

\* any program: `initial` absent, empty or a name; any declaration order
InitBoot ==
  /\ NoIntrospection
  /\ program \in [initial : {None, "", "idle", "2"}, declared : Declarations]
  /\ plugs = Registry(config.plugs)
  /\ Started

\* start() of any program, and restore(), which starts the program again
SpecBoot == InitBoot /\ [][SnapshotRestore]_vars

\* sessions of the program whose initial phase has an invocation
SpecInvoking == InitInvoking /\ [][Next]_vars

\* ---------------------------------------------------------------- claims
Range(f) == {f[x] : x \in DOMAIN f}

IsPrefix(a, b) == Len(a) <= Len(b) /\ a = SubSeq(b, 1, Len(a))

\* call chain t ran in this step (another call's commit changes only `stale`)
Acted(t) ==
  \/ t \notin DOMAIN tasks
  \/ [tasks[t] EXCEPT !.stale = FALSE] # [tasks'[t] EXCEPT !.stale = FALSE]

\* C1: a do() of an event that can() does not return at the call (the event is
\* not declared in the current phase, or loading is true) changes neither
\* where().phase nor where().data, in the call or in the work it scheduled.
C1_NoTransitionOutsideCan ==
  [][ /\ \A t \in DOMAIN tasks' :
           (Acted(t) /\ ~tasks'[t].legal) => (currentPhase' = currentPhase /\ data' = data)
      /\ (emitted' = <<"warn">> /\ tasks' = tasks)
           => (currentPhase' = currentPhase /\ data' = data) ]_vars

\* C2: dispatches are serialized: a later do() is not processed before the
\* earlier one has run to completion, so at most one call chain is in flight.
C2_Serialized ==
  \A t, u \in DOMAIN tasks :
    (t # u /\ tasks[t].kind = "do" /\ tasks[u].kind = "do")
      => (tasks[t].pc = "done" \/ tasks[u].pc = "done")

\* C3: when the service plug of an invocation settles after the session has
\* left the invocation's phase, no continuation is taken and phase, data and
\* error stay as they are.
C3_StaleDiscarded ==
  [][ \A t \in DOMAIN tasks :
        (tasks[t].pc = "awaitService" /\ tasks[t].stale /\ Acted(t))
          => /\ tasks'[t].pc = "done"
             /\ currentPhase' = currentPhase
             /\ data' = data
             /\ error' = error ]_vars

\* C4: first match: the alternatives before the one a call is attempting all
\* have a guard that did not pass, guards are invoked in list order, no guard
\* after the committed alternative is invoked, and the phase change goes to
\* the target of the first alternative whose guard is absent or passed.
C4_FirstMatch ==
  \A t \in DOMAIN tasks :
    LET r == tasks[t] IN
    r.alts # <<>> =>
      /\ Len(r.gres) \in {r.i - 1, r.i}
      /\ \A j \in 1..(r.i - 1) : r.alts[j].cond # None /\ r.gres[j] = "fail"
      /\ \A n \in DOMAIN r.gcalls :
           /\ r.gcalls[n] <= r.i
           /\ r.alts[r.gcalls[n]].cond # None
           /\ n > 1 => r.gcalls[n - 1] < r.gcalls[n]
      /\ (r.trace # <<>> \/ r.pc \in {"awaitPlug", "awaitService"}) =>
           /\ Len(r.gres) = r.i
           /\ r.gres[r.i] = (IF r.alts[r.i].cond = None THEN "absent" ELSE "pass")
      /\ r.to # None => r.to = r.alts[r.i].target

\* the guard of the first alternative passed: it is committed, the second
\* guard was never invoked
C4_Witness ==
  \E t \in DOMAIN tasks :
    /\ Len(tasks[t].alts) = 3
    /\ tasks[t].gres = <<"pass">>
    /\ tasks[t].gcalls = <<1>>
    /\ tasks[t].to = "approved"
    /\ currentPhase = "approved"

\* C5: a guard plug that throws, rejects or is not registered counts as false:
\* no error is recorded or notified, the next alternative is evaluated (and
\* attempted at once when it has no guard), and with no alternative left the
\* dispatch ends without any change.
C5_GuardFailureIsFalse ==
  [][ \A t \in DOMAIN tasks :
        (Acted(t) /\ tasks[t].pc = "awaitGuard" /\ emitted'[1] \in {"throw", "missing"}) =>
          LET r == tasks[t]
              r2 == tasks'[t]
          IN /\ "error" \notin Range(emitted')
             /\ error' \in {error, NoError}
             /\ Len(r2.gres) >= r.i /\ r2.gres[r.i] = "fail"
             /\ IF r.i < Len(r.alts)
                THEN /\ r2.i = r.i + 1
                     /\ IF r.alts[r.i + 1].cond = None
                        THEN r2.gres = Append(SubSeq(r2.gres, 1, r.i), "absent")
                             /\ r2.pc # "awaitGuard"
                        ELSE r2.pc = "awaitGuard"
                ELSE /\ r2.pc = "done"
                     /\ UNCHANGED <<currentPhase, data, loading, error, lastEvent>> ]_vars

\* the second guard was not registered, the third (unguarded) alternative won
C5_Witness ==
  /\ emitted # <<>>
  /\ emitted[1] = "missing"
  /\ currentPhase = "rejected"
  /\ error = NoError
  /\ \E t \in DOMAIN tasks : tasks[t].gres = <<"fail", "fail", "absent">>

\* the calls of one committed transition, in the order the runtime documents
Expected(r) ==
  PhaseOf(r.from).exit \o Alt(r).actions \o <<"#phase">>
    \o PhaseOf(Alt(r).target).entry
    \o (IF PhaseOf(Alt(r).target).invoke.src # None THEN <<"#invoke">> ELSE <<>>)

\* C6: within a transition the exit actions of the source phase come first,
\* then the transition's actions in declared order, then the phase change,
\* then the entry actions of the target, then the start of its invocation;
\* the call awaited is the last one made.
C6_Order ==
  \A t \in DOMAIN tasks :
    LET r == tasks[t] IN
    r.alts # <<>> =>
      /\ r.from = None => r.trace = <<>>
      /\ r.from # None => IsPrefix(r.trace, Expected(r))
      /\ r.pc = "awaitService" => r.trace = Expected(r)
      /\ (r.pc = "awaitPlug" /\ r.res = "pending") => r.trace[Len(r.trace)] = r.list[r.k]

\* PAY: exit action, two transition actions, phase change, entry action,
\* invocation
C6_Witness ==
  \E t \in DOMAIN tasks :
    /\ tasks[t].trace = <<"saveScroll", "calculateTotal", "applyTax", "#phase",
                          "startLoading", "#invoke">>
    /\ tasks[t].pc = "awaitService"

\* C7: the update an action returns is merged into data before the next
\* action of the transition runs: applyTax, which runs after calculateTotal
\* returned {total: event.amount}, reads that total.
C7_SequentialVisibility ==
  \A t \in DOMAIN tasks :
    LET r == tasks[t] IN
    (r.pc = "awaitPlug" /\ r.res = "pending" /\ r.stage = "actions"
       /\ r.list[r.k] = "applyTax")
      => r.ret["tax"] = Num(r.event.val)

\* C8: when the service plug resolves with r, loading becomes false and the
\* onDone transition (if configured) is attempted with {type:'DONE', data:r};
\* its action is given r as event.data, what the action writes is the
\* session's data, and the phase change goes to the onDone target.
C8_OnDone ==
  [][ \A t \in DOMAIN tasks :
        Acted(t) =>
          LET r == tasks[t]
              r2 == tasks'[t]
          IN /\ (r.pc = "awaitService" /\ emitted'[1] = "resolve") =>
                  /\ loading' = FALSE
                  /\ PhaseOf(Top(r).inv).invoke.onDone # <<>> =>
                       /\ r2.alts = PhaseOf(Top(r).inv).invoke.onDone
                       /\ r2.event = [type |-> "DONE", val |-> r2.result, error |-> NoError]
             /\ (r2.pc = "awaitPlug" /\ r2.res = "pending" /\ r2.event.type = "DONE"
                   /\ r2.list[r2.k] = "storeResults") =>
                  /\ r2.ret = [k \in {"items"} |-> Arr(r2.result)]
                  /\ r2.style = "assign" => data'["items"] = Arr(r2.result)
             /\ (r2.event.type = "DONE" /\ "#phase" \in Range(emitted')) =>
                  /\ currentPhase' = r2.alts[1].target
                  /\ lastEvent' = r2.event
                  /\ data' = data ]_vars

\* the search resolved and its result is stored in the onDone target
C8_Witness ==
  /\ currentPhase = "results"
  /\ ~loading
  /\ lastEvent.type = "DONE"
  /\ lastEvent.val \in Vals
  /\ data["items"] = Arr(lastEvent.val)

\* C9: when the service plug rejects or is not registered, the run that
\* handles it emits the error notification first, leaves loading false, and
\* with onError attempts that transition with {type:'ERROR', error} carrying
\* the failure's {message, code}; without onError the call ends in the same
\* phase with error set to it.
C9_ServiceFailure ==
  [][ \A t \in DOMAIN tasks :
        (Acted(t) /\ tasks[t].pc = "awaitService") =>
          LET r == tasks[t]
              r2 == tasks'[t]
              inv == PhaseOf(Top(r).inv).invoke
              e == PlugError(emitted'[1])
          IN /\ r.res = "missing" => emitted'[1] = "missing"
             /\ emitted'[1] \in {"reject", "missing"} =>
                  /\ Len(emitted') >= 2 /\ emitted'[2] = "error"
                  /\ loading' = FALSE
                  /\ IF inv.onError # <<>>
                     THEN /\ r2.alts = inv.onError
                          /\ r2.event = [type |-> "ERROR", val |-> 0, error |-> e]
                          /\ \/ error' = e
                             \/ "#phase" \in Range(emitted') /\ error' = NoError
                     ELSE /\ r2.pc = "done"
                          /\ currentPhase' = currentPhase
                          /\ error' = e ]_vars

\* the payment service rejected: no onError, the session is parked in paying
C9_Witness ==
  /\ currentPhase = "paying"
  /\ ~loading
  /\ error = PlugError("reject")
  /\ emitted = <<"reject", "error">>

\* C10: restore(P, S.snapshot()) has the phase and the data of S.
C10_RoundTrip ==
  restored.done =>
    /\ restored.where.phase = restored.snap.phase
    /\ restored.where.data = restored.snap.data

\* a step that is a call of do(): it started a call chain, or it only warned
IsDo ==
  \/ Cardinality(DOMAIN tasks') = Cardinality(DOMAIN tasks) + 1
  \/ emitted' = <<"warn">> /\ tasks' = tasks

\* C12: every call of do() appends exactly one entry to the history, with the
\* phase current at the call, whether or not the event is legal.
C12_HistoryUnconditional ==
  [][ IsDo =>
        /\ Len(eventHistory') = Len(eventHistory) + 1
        /\ SubSeq(eventHistory', 1, Len(eventHistory)) = eventHistory
        /\ eventHistory'[Len(eventHistory')].phase = currentPhase ]_vars

\* C13: once the session is in a phase of type 'final' the phase does not
\* change again, also when that phase declares transitions.
C13_TerminalIsFinal ==
  [][ PhaseOf(currentPhase).final => currentPhase' = currentPhase ]_vars

\* C14: where().phase is always a key of the program's phase table.
C14_PhaseDeclared == where.phase \in PhaseNames

\* C16: can() is empty whenever loading is true, and otherwise it is exactly
\* the set of events the current phase declares.
C16_Can ==
  /\ loading => can = {}
  /\ ~loading => can = Declared

\* an invocation is pending in a phase that declares an event
C16_Witness ==
  /\ loading
  /\ currentPhase = "searching"
  /\ Declared = {"CANCEL"}
  /\ can = {}

\* the awaited plug of call t failed in this step (guards are not meant: a
\* failing guard counts as false)
PlugFailed(t) ==
  /\ Acted(t)
  /\ tasks[t].pc \in {"awaitPlug", "awaitService"}
  /\ emitted'[1] \in {"throw", "reject", "missing"}

\* C15: no failure of an action or service plug escapes the session: no
\* promise is left rejected without a handler, whether the call chain was
\* started by do() or by start(), and the run that handles the failure emits
\* the error notification.
C15_NoEscape ==
  [][ /\ "unhandledRejection" \notin Range(emitted')
      /\ \A t \in DOMAIN tasks : PlugFailed(t) => "error" \in Range(emitted') ]_vars

\* C19: when the initial phase has an invocation, start() returns with loading
\* true and the service plug registered at that moment called with the input
\* computed from lastEvent = {type:'INIT'}; when it settles, the onDone or
\* onError continuation runs as for an invocation entered by a transition.
C19_InitialInvoke ==
  /\ ( /\ currentPhase = "searching"
       /\ loading = TRUE
       /\ lastEvent = InitEvent
       /\ DOMAIN tasks = {1}
       /\ tasks[1].kind = "start"
       /\ tasks[1].pc = "awaitService"
       /\ tasks[1].res = Lookup(PhaseOf("searching").invoke.src)
       /\ tasks[1].arg = ServiceInput(PhaseOf("searching").invoke, data, InitEvent) )
  /\ [][ \A t \in DOMAIN tasks :
           (Acted(t) /\ tasks[t].kind = "start" /\ tasks[t].pc = "awaitService") =>
             LET r2 == tasks'[t]
                 inv == PhaseOf("searching").invoke
             IN /\ loading' = FALSE
                /\ emitted'[1] = "resolve" =>
                     /\ r2.alts = inv.onDone
                     /\ r2.event = [type |-> "DONE", val |-> r2.result, error |-> NoError]
                /\ emitted'[1] \in {"reject", "missing"} =>
                     /\ emitted'[2] = "error"
                     /\ error' = PlugError(emitted'[1])
                     /\ r2.alts = inv.onError
                     /\ r2.event = [type |-> "ERROR", val |-> 0, error |-> error'] ]_vars

\* the invocation started by start() resolved and its result was stored
C19_Witness ==
  /\ eventHistory = <<>>
  /\ currentPhase = "results"
  /\ lastEvent.type = "DONE"
  /\ \E t \in DOMAIN tasks : tasks[t].kind = "start" /\ tasks[t].pc = "done"

\* C18: start(P).where().phase is P.initial when it is given, and otherwise
\* the first phase P.phases declares.
C18_InitialPhase ==
  where.phase = IF program.initial # None THEN program.initial
                ELSE program.declared[1]

\* the plug name of the call that call chain r is waiting for
CalledName(r) ==
  CASE r.pc = "awaitGuard"   -> Alt(r).cond
    [] r.pc = "awaitPlug"    -> r.list[r.k]
    [] r.pc = "awaitService" -> PhaseOf(Top(r).inv).invoke.src

\* C20: use() merges into the registry (a name given again is replaced, the
\* other names stay as they are), and every plug call goes to the plug that
\* is registered under the name when the call is made: a call that is already
\* pending keeps the plug it was made to, a call made after the swap gets the
\* new one.
C20_UseAtCallTime ==
  [][ /\ plugs' # plugs =>
           /\ \E ps \in SwapSets \cup UseSets :
                \A n \in PlugNames :
                  plugs'[n] = IF n \in DOMAIN ps THEN ps[n] ELSE plugs[n]
           /\ tasks' = tasks
      /\ \A t \in DOMAIN tasks' :
           IF Acted(t)
           THEN tasks'[t].pc \in {"awaitGuard", "awaitPlug", "awaitService"} =>
                  /\ tasks'[t].ver = plugs[CalledName(tasks'[t])]
                  /\ (tasks'[t].res = "missing") = (tasks'[t].ver = 0)
           ELSE tasks'[t].ver = tasks[t].ver ]_vars

\* isVIP was swapped between two SUBMIT dispatches: the call of the first is
\* pending on the old plug, the call of the second went to the new one
C20_Witness ==
  /\ plugs["isVIP"] = 2
  /\ plugs["searchAPI"] = 1
  /\ \E t, u \in DOMAIN tasks :
       /\ t < u
       /\ tasks[t].pc = "awaitGuard" /\ CalledName(tasks[t]) = "isVIP" /\ tasks[t].ver = 1
       /\ tasks[u].pc = "awaitGuard" /\ CalledName(tasks[u]) = "isVIP" /\ tasks[u].ver = 2

\* C17: where() and snapshot() return copies of data: no later step of the
\* session changes a value returned earlier, and no change the host makes to
\* the returned value, at any depth, changes the data the session reports.
C17_DefensiveCopies ==
  [][ /\ (held.taken /\ held' = held /\ heap' = heap)
           => Deep(held'.data, heap') = Deep(held.data, heap)
      /\ (held.taken /\ (held' # held \/ heap' # heap))
           => Deep(where'.data, heap') = Deep(where.data, heap) ]_vars

\* C11: with deterministic plugs, replay(S.history()) on a fresh session of
\* the same program, plugs and initial data ends, once all its work has
\* completed, in the phase and the data the session S ended in.
C11_ReplayDeterminism ==
  (replayed.done /\ Quiescent)
    => (currentPhase = replayed.phase /\ data = replayed.data)

\* C21: a transition that has entered a final phase has emitted done exactly
\* once, after the entry actions and right after the change notification; a
\* transition into a phase that is not final has emitted none.
C21_DoneOnTerminal ==
  /\ \A t \in DOMAIN tasks :
       /\ tasks[t].dones <= 1
       /\ (tasks[t].pc = "done" /\ tasks[t].to # None)
            => tasks[t].dones = IF PhaseOf(tasks[t].to).final THEN 1 ELSE 0
  /\ \A i \in DOMAIN emitted :
       emitted[i] = "done" => (i > 1 /\ emitted[i - 1] = "change")

\* C22: allPaths() returns on every phase graph, cycles and self-loops
\* included, and the last phase of every path it returns is final or has no
\* outgoing transition.
C22_AllPaths ==
  /\ <>(walk.status = "returned")
  /\ [](walk.status = "returned" =>
          \A i \in DOMAIN walk.paths :
            LET last == walk.paths[i][Len(walk.paths[i])]
            IN last \in graph.final \/ graph.on[last] = {})

\* a search that came back to a phase of a cycle and returned paths
C22_Witness ==
  /\ walk.status = "returned"
  /\ walk.op = "allPaths"
  /\ walk.paths # <<>>
  /\ \E n \in Nodes : n \in graph.on[n]
  /\ \E a, b \in Nodes : a # b /\ b \in graph.on[a] /\ a \in graph.on[b]
                         /\ a \notin graph.final /\ b \notin graph.final
                         /\ \E i \in DOMAIN walk.paths :
                              \E j \in DOMAIN walk.paths[i] : walk.paths[i][j] = b

\* the phases reachable from those of S by zero or more declared transitions
RECURSIVE Reachable(_, _)
Reachable(g, S) ==
  LET T == S \cup UNION {g.on[n] : n \in S \cap g.declared}
  IN IF T = S THEN S ELSE Reachable(g, T)

\* C23: canReach(from, to) returns on every phase graph, and returns true
\* exactly when `to` is reachable from `from` by zero or more declared
\* transition targets; canReach(p, p) is true.
C23_CanReach ==
  /\ (walk.status = "running") ~> (walk.status = "returned")
  /\ [](walk.status = "returned" =>
          /\ walk.result = (walk.to \in Reachable(graph, {walk.from}))
          /\ (walk.from = walk.to => walk.result))

\* a search that met a visited phase again and found the target after a
\* target that did not lead to it
C23_Witness ==
  /\ walk.status = "returned"
  /\ walk.op = "canReach"
  /\ walk.result
  /\ walk.from # walk.to
  /\ walk.to \notin graph.on[walk.from]
  /\ Cardinality(walk.visited) = MaxNodes - 1
  /\ \E n \in walk.visited : \E m \in graph.on[n] : m \in walk.visited

\* b is the target of a declared transition of a, or the success target of
\* a's invocation
Linked(g, a, b) ==
  /\ a \in g.declared
  /\ b \in g.on[a] \/ (g.onDone[a] # 0 /\ g.onDone[a] = b)

\* C24: pathExists(sequence) is true exactly when every consecutive pair of
\* the sequence is linked by a declared transition or by the success target of
\* an invocation; sequences of length 0 and 1 give true.
C24_PathExists ==
  (walk.status = "returned" /\ walk.op = "pathExists") =>
     /\ walk.result = (\A i \in 1 .. Len(walk.path) - 1 :
                         Linked(graph, walk.path[i], walk.path[i + 1]))
     /\ (Len(walk.path) < 2 => walk.result)

\* a sequence found to exist that has one pair linked by a transition and one
\* linked by an invocation's onDone only
C24_Witness ==
  /\ walk.status = "returned"
  /\ walk.op = "pathExists"
  /\ walk.result
  /\ Len(walk.path) = MaxPath
  /\ \E i \in 1 .. Len(walk.path) - 1 : walk.path[i + 1] \in graph.on[walk.path[i]]
  /\ \E i \in 1 .. Len(walk.path) - 1 : walk.path[i + 1] \notin graph.on[walk.path[i]]

\* the phase names a phase refers to: its transition targets and the targets
\* of its invocation's continuations
Referenced(ph) ==
  UNION {{ph.on[e][j].target : j \in DOMAIN ph.on[e]} : e \in DOMAIN ph.on}
    \cup {ph.invoke.onDone[j].target : j \in DOMAIN ph.invoke.onDone}
    \cup {ph.invoke.onError[j].target : j \in DOMAIN ph.invoke.onError}

Unresolved == UNION {Referenced(config.phases[p]) : p \in PhaseNames} \ PhaseNames

\* C25: a program with a transition or continuation target that names no
\* declared phase cannot be built: no session of it is ever started.
C25_BuildFails == Unresolved # {} => currentPhase \notin PhaseNames

\* the zero value of a field type
Zero(type) ==
  CASE type = "string"  -> [t |-> "string", v |-> 0]
    [] type = "number"  -> Num(0)
    [] type = "boolean" -> [t |-> "boolean", v |-> 0]
    [] type = "array"   -> Arr(0)
    [] type = "object"  -> [t |-> "object", v |-> 0]

\* an override value is given for field k
Given(given, k) == k \in DOMAIN given /\ given[k] # Undefined

\* C26: each schema field of the initial data is the override value if one is
\* given, else the schema default, else the zero value of its type; override
\* fields that the schema does not declare are kept as they are.
C26_InitialData ==
  (walk.status = "returned" /\ walk.op = "initializeData") =>
     /\ \A k \in DOMAIN walk.schema :
          /\ k \in DOMAIN walk.result
          /\ walk.result[k] =
               IF Given(walk.given, k) THEN walk.given[k]
               ELSE IF walk.schema[k].hasDefault THEN walk.schema[k].default
               ELSE Zero(walk.schema[k].type)
     /\ \A k \in DOMAIN walk.given \ DOMAIN walk.schema :
          k \in DOMAIN walk.result /\ walk.result[k] = walk.given[k]

\* the violations of a value against a schema, at every depth
RECURSIVE Violations(_, _, _)
RECURSIVE ViolationsOf(_, _, _)
ViolationsOf(v, field, context) ==
  IF v = Undefined
  THEN IF field.required THEN {Violation(context, "required")} ELSE {}
  ELSE IF getActualType(v) # field.type THEN {Violation(context, "type")}
  ELSE IF field.type = "number"
  THEN IF field.hasMin /\ v.v < field.min THEN {Violation(context, "min")} ELSE {}
  ELSE IF field.type = "array" /\ field.items # <<>>
  THEN UNION {ViolationsOf(v.items[j], field.items[1], Append(context, IndexName(j)))
                : j \in DOMAIN v.items}
  ELSE IF field.type = "object" /\ field.properties # <<>>
  THEN Violations(v, field.properties, context)
  ELSE {}

Violations(value, schema, context) ==
  UNION {ViolationsOf(Get(value, schema[j].key), schema[j].field,
                      Append(context, schema[j].key)) : j \in DOMAIN schema}

\* C27: validation reports every violation of every declared field together,
\* those inside nested objects and array items included; it fails exactly when
\* there is one, and reports nothing for a valid field.
C27_AllViolations ==
  (walk.status = "returned" /\ walk.op = "validateSchema") =>
     /\ Range(walk.result.errors) = Violations(walk.value, walk.schema, <<"Value">>)
     /\ walk.result.threw = (Violations(walk.value, walk.schema, <<"Value">>) # {})

\* what a step made visible besides the outcome of the awaited plug and
\* console diagnostics: notifications, the phase change, plug calls
Effects(log) == Range(log) \ {"true", "false", "throw", "missing", "ok", "resolve",
                              "reject", "warn"}

\* C28: while no alternative of a dispatched event has matched, and when the
\* last guard has been false or has failed, the dispatch has invoked no action,
\* emitted no notification and left phase, data, error, loading and lastEvent
\* as they were.
C28_NoMatchNoOp ==
  [][ \A t \in DOMAIN tasks' :
        (/\ Acted(t)
         /\ tasks'[t].kind = "do"
         /\ tasks'[t].event.type \in EventNames
         /\ tasks'[t].pc \in {"awaitGuard", "done"}
         /\ \A i \in DOMAIN tasks'[t].gres : tasks'[t].gres[i] = "fail")
        => /\ UNCHANGED <<currentPhase, data, loading, error, lastEvent>>
           /\ tasks'[t].trace = <<>>
           /\ Effects(emitted') = {} ]_vars

\* a dispatch has ended with no match: its first guard was false, its last
\* guard failed
C28_Witness ==
  /\ emitted = <<"missing", "warn">>
  /\ \E t \in DOMAIN tasks :
       /\ tasks[t].pc = "done"
       /\ tasks[t].event.type = "ESCALATE"
       /\ tasks[t].gres = <<"fail", "fail">>
       /\ tasks[t].legal

\* C29: a matched transition takes effect as a whole or not at all: when one
\* of its exit, transition or entry action plugs fails or is missing, phase
\* and data are what they were when the transition began.
C29_AtomicCommit ==
  [][ \A t \in DOMAIN tasks :
        (/\ Acted(t)
         /\ tasks[t].pc = "awaitPlug"
         /\ emitted' # <<>>
         /\ emitted'[1] \in {"throw", "missing"})
        => /\ currentPhase' = tasks[t].from
           /\ data' = tasks[t].was ]_vars

\* C30: the step in which a transition commits, dispatched or continuation,
\* leaves phase at the target, error cleared and lastEvent at the triggering
\* event, and no entry action of the target has been called before it.
C30_Commit ==
  [][ \A t \in DOMAIN tasks' :
        (Acted(t) /\ "#phase" \in Range(emitted')) =>
          LET r == tasks'[t]
              at == CHOOSE i \in DOMAIN r.trace : r.trace[i] = "#phase"
          IN /\ currentPhase' = r.to
             /\ r.to = r.alts[r.i].target
             /\ error' = NoError
             /\ lastEvent' = r.event
             /\ SubSeq(r.trace, 1, at - 1) = PhaseOf(r.from).exit \o r.alts[r.i].actions
             /\ r.pc = "awaitPlug" => (r.stage = "entry" /\ r.k = 1) ]_vars

\* an onError continuation has committed: the error of the failed service is
\* no longer reported
C30_Witness ==
  /\ currentPhase = "failed"
  /\ lastEvent.type = "ERROR"
  /\ lastEvent.error # NoError
  /\ error = NoError
  /\ "#phase" \in Range(emitted)

\* C31: the service plug is called with (data, input), where input is what
\* the input computer returned whenever the invocation has one, whatever the
\* value, and is lastEvent only when it has none.
C31_ServiceInput ==
  (walk.status = "returned" /\ walk.op = "handleInvoke") =>
     walk.passed = <<walk.data,
                     IF walk.invoke.hasInput THEN walk.invoke.returns ELSE walk.lastEvent>>

\* C32: from the call of the service plug of an invocation until that plug
\* settles, loading is true.
C32_LoadingWhilePending ==
  \A t \in DOMAIN tasks :
    (tasks[t].pc = "awaitService" /\ tasks[t].res = "pending") => loading

TargetsOf(alts) == {alts[j].target : j \in DOMAIN alts}

\* C34: a step that changes the phase from p to q takes an edge declared on
\* p: q is a target of p.on[event] for the dispatched event, or the onDone
\* target of p's invocation for a DONE, or its onError target for an ERROR.
C34_DeclaredEdge ==
  [][ currentPhase' # currentPhase =>
        LET p == PhaseOf(currentPhase)
            ev == lastEvent'.type
        IN currentPhase' \in
             (IF ev \in DOMAIN p.on THEN TargetsOf(p.on[ev]) ELSE {})
               \cup (IF ev = "DONE" THEN TargetsOf(p.invoke.onDone) ELSE {})
               \cup (IF ev = "ERROR" THEN TargetsOf(p.invoke.onError) ELSE {}) ]_vars

\* C35: loading is true exactly when a service call of an invocation of this
\* session is awaited.
C35_LoadingIffPending ==
  loading <=> (\E t \in DOMAIN tasks : tasks[t].pc = "awaitService")

\* C36: a call chain starts the onError continuation of an invocation only in
\* the step in which the awaited service plug failed; the failure of a guard
\* or action plug of the onDone continuation never starts it.
C36_OnErrorOnlyForService ==
  [][ \A t \in DOMAIN tasks :
        (Acted(t) /\ tasks'[t].event.type = "ERROR" /\ tasks[t].event.type # "ERROR")
          => /\ tasks[t].pc = "awaitService"
             /\ emitted'[1] \in {"reject", "missing"} ]_vars

\* C37: the plug a session invokes under a name is the one registered for
\* that session: use() on another session of the factory does not change it.
C37_IndependentRegistries ==
  (walk.status = "returned" /\ walk.op = "executePlug") =>
     walk.ver = Registry(PlugNames)[walk.name]

\* C38: for declared phases a and b, when pathExists([a, b]) is true,
\* canReach(a, b) returns true.
C38_QueriesAgree ==
  (walk.status = "returned" /\ walk.op = "canReach") =>
     (pathExists(graph, <<walk.from, walk.to>>) => walk.result)

\* the models a schema refers to
RefsOf(schema) == {schema[j].field.ref : j \in DOMAIN schema} \ {None}

\* the models reachable from those of S through $ref
RECURSIVE RefClosure(_, _)
RefClosure(models, S) ==
  LET T == S \cup UNION {RefsOf(models[n]) : n \in S \cap DOMAIN models}
  IN IF T = S THEN S ELSE RefClosure(models, T)

\* some model refers to itself through $ref
Cyclic(models) ==
  \E n \in DOMAIN models : n \in RefClosure(models, RefsOf(models[n]))

\* C39: validation against models that refer to each other in a cycle ends
\* with a failure that reports the cycle.
C39_CycleReported ==
  (walk.status = "returned" /\ walk.op = "validateSchema" /\ Cyclic(walk.models)) =>
     /\ walk.result.threw
     /\ \E i \in DOMAIN walk.result.errors : walk.result.errors[i].kind = "cycle"

====
